---- MODULE Spec2Model ----
(***************************************************************************)
(* Model of ConfluenceRenderer (src/convert.py) and of the Article         *)
(* properties it reads (src/record.py).                                    *)
(*                                                                         *)
(* A Python string is a sequence of tokens; the string is the              *)
(* concatenation of its tokens.  The fixed text of a template is cut at    *)
(* its placeholders into tokens that are spelled as in the source.  Text   *)
(* that comes from the caller is made of one-character tokens for the      *)
(* characters the code or its libraries look at ("/", ":", ".", "?", "#",  *)
(* "<", ">", "&", "]", quotes) and of name tokens, each standing for a     *)
(* run of letters (and inner dots) with none of those characters in it.    *)
(***************************************************************************)
EXTENDS Integers, Sequences, FiniteSets, TLC

\* ------------------------------------------------------------------ bounds
MaxCalls == 4
MaxAssetCalls == 2
MaxAuthors == 2

\* ------------------------------------------------------- string primitives
RECURSIVE Find(_, _, _)
\* str.find(t, start) for a one-token t, 1-based; 0 when t does not occur.
Find(s, t, start) ==
    IF start > Len(s) THEN 0
    ELSE IF s[start] = t THEN start
    ELSE Find(s, t, start + 1)

RECURSIVE RFind(_, _, _)
\* str.rfind(t) scanning down from position i; 0 when t does not occur.
RFind(s, t, i) ==
    IF i < 1 THEN 0
    ELSE IF s[i] = t THEN i
    ELSE RFind(s, t, i - 1)

StartsWithAt(s, pat, i) ==
    /\ i + Len(pat) - 1 <= Len(s)
    /\ SubSeq(s, i, i + Len(pat) - 1) = pat

StartsWith(s, pat) == StartsWithAt(s, pat, 1)

EndsWith(s, pat) ==
    /\ Len(pat) <= Len(s)
    /\ SubSeq(s, Len(s) - Len(pat) + 1, Len(s)) = pat

RECURSIVE Split(_, _)
\* str.split(sep) for a one-token separator: a sequence of strings.
Split(s, sep) ==
    LET i == Find(s, sep, 1)
    IN  IF i = 0 THEN <<s>>
        ELSE <<SubSeq(s, 1, i - 1)>> \o Split(SubSeq(s, i + 1, Len(s)), sep)

RECURSIVE JoinWith(_, _)
\* sep.join(parts) for a sequence of strings.
JoinWith(parts, sep) ==
    IF Len(parts) = 0 THEN <<>>
    ELSE IF Len(parts) = 1 THEN parts[1]
    ELSE parts[1] \o sep \o JoinWith(Tail(parts), sep)

RECURSIVE RStrip(_, _)
\* str.rstrip(t) for a one-token t.
RStrip(s, t) ==
    IF Len(s) > 0 /\ s[Len(s)] = t THEN RStrip(SubSeq(s, 1, Len(s) - 1), t)
    ELSE s

AllAre(s, t) == \A i \in 1..Len(s) : s[i] = t

\* Optional values: None, or a string.
None == [isNone |-> TRUE, s |-> <<>>]
Some(s) == [isNone |-> FALSE, s |-> s]

\* --------------------------------------------------------------- alphabet
\* Name tokens: runs of letters, possibly with inner dots.
Names == {"docs", "posts", "intro.md", "img", "diagram.png", "a.png",
          "https", "cdn.example.com", "host"}

\* string.ascii_letters + digits + "+-." as urllib.parse.scheme_chars.
IsSchemeChar(t) == t \in Names \cup {"."}

\* url[0].isascii() and url[0].isalpha(): a name token starts with a letter.
StartsAlpha(t) == t \in Names

\* ------------------------------------------------------ urllib.parse, os.path
\* urlsplit's scheme step: the text after "scheme:" when the text before the
\* first ":" is a well-formed scheme, the whole text otherwise.
AfterScheme(url) ==
    LET i == Find(url, ":", 1)
    IN  IF /\ i > 1
           /\ StartsAlpha(url[1])
           /\ \A k \in 1..(i - 1) : IsSchemeChar(url[k])
        THEN SubSeq(url, i + 1, Len(url))
        ELSE url

\* _splitnetloc(url, 2): the first of "/", "?", "#" from the third character
\* on ends the authority.
NetlocEnd(url) ==
    LET hits == {Find(url, c, 3) : c \in {"/", "?", "#"}} \ {0}
    IN  IF hits = {} THEN Len(url) + 1
        ELSE CHOOSE d \in hits : \A e \in hits : d <= e

\* Mutant of Netloc: a classification by scheme presence instead of
\* authority presence.
NetlocByScheme(src) ==
    IF AfterScheme(src) # src THEN SubSeq(src, 1, 1) ELSE <<>>

\* urlparse(src).netloc.  urlsplit raises ValueError for a host with an
\* unbalanced "[" or "]"; no source drawn below holds a bracket.
Netloc(src) ==
    LET url == AfterScheme(src)
    IN  IF StartsWith(url, <<"/", "/">>)
        THEN SubSeq(url, 3, NetlocEnd(url) - 1)
        ELSE <<>>

\* os.path.dirname(p)
Dirname(p) ==
    LET i == RFind(p, "/", Len(p))
        head == SubSeq(p, 1, i)
    IN  IF head # <<>> /\ ~AllAre(head, "/") THEN RStrip(head, "/") ELSE head

\* os.path.basename(p)
Basename(p) == SubSeq(p, RFind(p, "/", Len(p)) + 1, Len(p))

\* os.path.join(a, b)
PathJoin(a, b) ==
    IF StartsWith(b, <<"/">>) THEN b
    ELSE IF a = <<>> \/ EndsWith(a, <<"/">>) THEN a \o b
    ELSE a \o <<"/">> \o b

RECURSIVE NormComps(_, _, _)
\* The loop of os.path.normpath over the components, building new_comps.
NormComps(comps, new_comps, initial_slashes) ==
    IF comps = <<>> THEN new_comps
    ELSE LET comp == Head(comps)
             n == Len(new_comps)
         IN  IF comp = <<>> \/ comp = <<".">>
             THEN NormComps(Tail(comps), new_comps, initial_slashes)
             ELSE IF \/ comp # <<".", ".">>
                     \/ (initial_slashes = 0 /\ n = 0)
                     \/ (n > 0 /\ new_comps[n] = <<".", ".">>)
             THEN NormComps(Tail(comps), Append(new_comps, comp), initial_slashes)
             ELSE IF n > 0
             THEN NormComps(Tail(comps), SubSeq(new_comps, 1, n - 1), initial_slashes)
             ELSE NormComps(Tail(comps), new_comps, initial_slashes)

\* os.path.normpath(path)
Normpath(path) ==
    IF path = <<>> THEN <<".">>
    ELSE LET initial_slashes ==
                 IF ~StartsWith(path, <<"/">>) THEN 0
                 ELSE IF StartsWith(path, <<"/", "/">>) /\ ~StartsWith(path, <<"/", "/", "/">>)
                 THEN 2
                 ELSE 1
             comps == NormComps(Split(path, "/"), <<>>, initial_slashes)
             joined == [i \in 1..initial_slashes |-> "/"] \o JoinWith(comps, <<"/">>)
         IN  IF joined = <<>> THEN <<".">> ELSE joined

\* Article.absolute_director
absolute_director(absolute_path) == Dirname(absolute_path)

\* ------------------------------------------------------------ html.escape
EscapeChar(t) ==
    CASE t = "&" -> "&amp;"
      [] t = "<" -> "&lt;"
      [] t = ">" -> "&gt;"
      [] t = "\"" -> "&quot;"
      [] t = "'" -> "&#x27;"
      [] OTHER -> t

\* html.escape(s) with quote=True
HtmlEscape(s) == [i \in 1..Len(s) |-> EscapeChar(s[i])]

\* ---------------------------------------------------------------- templates
\* full_with_template, cut at {}
FullOpen == "\n<ac:layout-section ac:type=\"fixed-width\" ac:breakout-mode=\"default\">\n    <ac:layout-cell>\n        "
FullClose == "\n    </ac:layout-cell>\n</ac:layout-section>\n"

\* two_column_template, cut at {sidebar} and {main_content}
TwoOpen == "\n<ac:layout-section ac:type=\"two_left_sidebar\" ac:breakout-mode=\"default\">\n    <ac:layout-cell>\n        "
TwoMid == "\n    </ac:layout-cell><ac:layout-cell>\n        "
TwoClose == "\n    </ac:layout-cell>\n</ac:layout-section>\n"

\* page_template, cut at {}
PageOpen == "\n<ac:layout>\n    "
PageClose == "\n</ac:layout>\n"

\* The dedented table-of-contents text of layout(), cut around the heading,
\* the macro and its exclude parameter.
TocHeading == "\n<h1>Table of Contents</h1>\n"
TocMacroOpen == "<p><ac:structured-macro ac:name=\"toc\" ac:schema-version=\"1\">\n    "
TocExclude == "<ac:parameter ac:name=\"exclude\">^(Authors|Table of Contents)$</ac:parameter>"
TocMacroClose == "\n</ac:structured-macro></p>\n"
TocFragment == <<TocHeading, TocMacroOpen, TocExclude, TocMacroClose>>

\* warning_template, cut at {copy}
WarningOpen == "<ac:structured-macro ac:name=\"note\" ac:schema-version=\"1\" ac:macro-id=\"f5f3fbe6-6a62-4eb2-867b-3e1254cef301\"><ac:rich-text-body><p>"
WarningClose == "</p></ac:rich-text-body></ac:structured-macro>"
DefaultWarningCopy == <<"This page is automatically generated and can be overwritten. Please don", "'", "t modify it here.">>

\* author_template, cut at the two {user_key}; the text around the joined
\* authors; the separator.
AuthorPicture == "<ac:structured-macro ac:name=\"profile-picture\" ac:schema-version=\"1\">\n                    <ac:parameter ac:name=\"User\"><ri:user ri:userkey=\""
AuthorLink == "\" /></ac:parameter>\n                </ac:structured-macro>&nbsp;\n                <ac:link><ri:user ri:userkey=\""
AuthorEnd == "\" /></ac:link>"
AuthorsOpen == "<h1>Authors</h1><p>"
AuthorsClose == "</p>"
LineBreak == "<br />"

\* The dedented code macro of block_code(), cut at {l} and {c}; the CDATA
\* closing delimiter is kept as its three characters.
CodeOpen == "<ac:structured-macro ac:name=\"code\" ac:schema-version=\"1\">\n    <ac:parameter ac:name=\"language\">"
CodeMid == "</ac:parameter>\n    <ac:plain-text-body>"
CdataOpen == "<![CDATA["
CdataClose == <<"]", "]", ">">>
CodeClose == "</ac:plain-text-body>\n</ac:structured-macro>\n"

\* tag_template and the two image_tag templates of image()
ImageOpen == "<ac:image>"
ImageClose == "</ac:image>"
UrlOpen == "<ri:url ri:value=\""
AttachmentOpen == "<ri:attachment ri:filename=\""
TagClose == "\" />"

\* -------------------------------------------------------------------- state
VARIABLES
    absolute_path,      \* self.article.absolute_path
    authors,            \* self.authors
    warning,            \* self.warning
    render_toc,         \* self.render_toc
    two_column_layout,  \* self.two_column_layout
    has_toc,            \* self.has_toc
    attachments,        \* self.attachments
    authors_arg,        \* the authors argument the constructor was given
    header_called,      \* history: header() has been called
    image_srcs,         \* history: the src of every image() call, in order
    ncalls,             \* history: the number of calls made so far
    op,                 \* history: the last call and its arguments
    ret                 \* history: what the last call returned

vars == <<absolute_path, authors, warning, render_toc, two_column_layout,
          has_toc, attachments, authors_arg, header_called, image_srcs,
          ncalls, op, ret>>

config == <<absolute_path, authors, warning, render_toc, two_column_layout,
            authors_arg>>

\* warning: Union[bool, str]
WarnBool(b) == [kind |-> "bool", b |-> b, s |-> <<>>]
WarnStr(s) == [kind |-> "str", b |-> FALSE, s |-> s]

\* Python truth of self.warning: False and '' are falsy.
Truthy(w) == IF w.kind = "bool" THEN w.b ELSE w.s # <<>>

Call(name, arg, lang, level) ==
    [name |-> name, arg |-> arg, lang |-> lang, level |-> level]

\* ------------------------------------------------------------- the renderer
\* ConfluenceRenderer.__init__
Construct(path, authors_given, warn, toc, two_col) ==
    /\ attachments = <<>>
    /\ authors_arg = authors_given
    /\ authors = IF authors_given.isNone THEN <<>> ELSE authors_given.s
    /\ has_toc = FALSE
    /\ render_toc = toc
    /\ absolute_path = path
    /\ warning = warn
    /\ two_column_layout = two_col
    /\ header_called = FALSE
    /\ image_srcs = <<>>
    /\ ncalls = 0
    /\ op = Call("init", <<>>, None, 0)
    /\ ret = <<>>

\* ConfluenceRenderer._render_warning
render_warning(w) ==
    IF Truthy(w)
    THEN LET warning_copy == IF w.kind = "bool" THEN DefaultWarningCopy ELSE w.s
         IN  <<WarningOpen>> \o HtmlEscape(warning_copy) \o <<WarningClose>>
    ELSE <<>>

\* author_template.format(user_key=user_key)
AuthorEntry(user_key) ==
    <<AuthorPicture, user_key, AuthorLink, user_key, AuthorEnd>>

\* Mutant of render_authors: the authors in reverse order.
RenderAuthorsReversed(a) ==
    IF Len(a) > 0
    THEN LET author_content ==
                 JoinWith([i \in 1..Len(a) |-> AuthorEntry(a[Len(a) + 1 - i])],
                          <<LineBreak>>)
         IN  <<AuthorsOpen>> \o author_content \o <<AuthorsClose>>
    ELSE <<>>

\* ConfluenceRenderer.render_authors
render_authors(a) ==
    IF Len(a) > 0
    THEN LET author_content ==
                 JoinWith([i \in 1..Len(a) |-> AuthorEntry(a[i])], <<LineBreak>>)
         IN  <<AuthorsOpen>> \o author_content \o <<AuthorsClose>>
    ELSE <<>>

\* Mutant of Toc: the table of contents whenever it is enabled.
TocWithoutHeadingCheck(seen, enabled) == IF enabled THEN TocFragment ELSE <<>>

\* layout(): the table of contents, emitted only after a header was seen.
Toc(seen, enabled) == IF seen /\ enabled THEN TocFragment ELSE <<>>

\* Mutant of Compose: two columns whenever they are asked for.
ComposeAlwaysTwoColumn(two_col, toc, authors_block, warning_block, content) ==
    IF two_col
    THEN LET w == IF warning_block # <<>>
                  THEN <<FullOpen>> \o warning_block \o <<FullClose>>
                  ELSE warning_block
         IN  <<PageOpen>> \o w
                 \o <<TwoOpen>> \o toc \o authors_block
                 \o <<TwoMid>> \o content \o <<TwoClose>>
                 \o <<PageClose>>
    ELSE warning_block \o toc \o authors_block \o content

\* Mutant of Compose: the warning goes into the sidebar.
ComposeWarningInSidebar(two_col, toc, authors_block, warning_block, content) ==
    IF two_col /\ (toc # <<>> \/ authors_block # <<>>)
    THEN <<PageOpen>>
             \o <<TwoOpen>> \o warning_block \o toc \o authors_block
             \o <<TwoMid>> \o content \o <<TwoClose>>
             \o <<PageClose>>
    ELSE warning_block \o toc \o authors_block \o content

\* Mutant of Compose: in one column the authors come before the table of
\* contents.
ComposeAuthorsBeforeToc(two_col, toc, authors_block, warning_block, content) ==
    IF two_col /\ (toc # <<>> \/ authors_block # <<>>)
    THEN LET w == IF warning_block # <<>>
                  THEN <<FullOpen>> \o warning_block \o <<FullClose>>
                  ELSE warning_block
         IN  <<PageOpen>> \o w
                 \o <<TwoOpen>> \o toc \o authors_block
                 \o <<TwoMid>> \o content \o <<TwoClose>>
                 \o <<PageClose>>
    ELSE warning_block \o authors_block \o toc \o content

\* layout(): the composition of the page from its parts.
Compose(two_col, toc, authors_block, warning_block, content) ==
    IF two_col /\ (toc # <<>> \/ authors_block # <<>>)
    THEN LET w == IF warning_block # <<>>
                  THEN <<FullOpen>> \o warning_block \o <<FullClose>>
                  ELSE warning_block
         IN  <<PageOpen>> \o w
                 \o <<TwoOpen>> \o toc \o authors_block
                 \o <<TwoMid>> \o content \o <<TwoClose>>
                 \o <<PageClose>>
    ELSE warning_block \o toc \o authors_block \o content

\* The page layout() returns for content under a given column setting.
PageOf(two_col, content) ==
    Compose(two_col, Toc(has_toc, render_toc), render_authors(authors),
            render_warning(warning), content)

\* mistune.Renderer.header, which header() returns: '<h%d>%s</h%d>\n'
HeaderFragment(text, level) ==
    <<IF level = 1 THEN "<h1>" ELSE "<h2>">> \o text
        \o <<IF level = 1 THEN "</h1>\n" ELSE "</h2>\n">>

\* The fragment block_code() returns.
CodeFragment(code, lang) ==
    <<CodeOpen>> \o (IF lang.isNone THEN <<>> ELSE lang.s)
        \o <<CodeMid, CdataOpen>> \o code \o CdataClose \o <<CodeClose>>

\* image(): is_external
IsExternal(src) == Netloc(src) # <<>>

\* Mutant of ImagePath: the joined path, not normalised.
ImagePathNotNormalised(src) == PathJoin(absolute_director(absolute_path), src)

\* image(): image_path
ImagePath(src) == Normpath(PathJoin(absolute_director(absolute_path), src))

\* The fragment image() returns.
ImageFragment(src) ==
    IF IsExternal(src)
    THEN <<ImageOpen, UrlOpen>> \o src \o <<TagClose, ImageClose>>
    ELSE <<ImageOpen, AttachmentOpen>> \o Basename(ImagePath(src))
             \o <<TagClose, ImageClose>>

\* Mutant of Header: the heading is rendered and not recorded.
HeaderWithoutFlag(text, level) ==
    /\ has_toc' = has_toc
    /\ ret' = HeaderFragment(text, level)
    /\ header_called' = TRUE
    /\ ncalls' = ncalls + 1
    /\ op' = Call("header", text, None, level)
    /\ UNCHANGED <<config, attachments, image_srcs>>

\* ConfluenceRenderer.header
Header(text, level) ==
    /\ has_toc' = TRUE
    /\ ret' = HeaderFragment(text, level)
    /\ header_called' = TRUE
    /\ ncalls' = ncalls + 1
    /\ op' = Call("header", text, None, level)
    /\ UNCHANGED <<config, attachments, image_srcs>>

\* ConfluenceRenderer.block_code
BlockCode(code, lang) ==
    /\ ret' = CodeFragment(code, lang)
    /\ ncalls' = ncalls + 1
    /\ op' = Call("block_code", code, lang, 0)
    /\ UNCHANGED <<config, has_toc, attachments, header_called, image_srcs>>

\* ConfluenceRenderer.image; title and alt_text are not read.
Image(src) ==
    /\ attachments' = IF IsExternal(src) THEN attachments
                      ELSE Append(attachments, ImagePath(src))
    /\ ret' = ImageFragment(src)
    /\ image_srcs' = Append(image_srcs, src)
    /\ ncalls' = ncalls + 1
    /\ op' = Call("image", src, None, 0)
    /\ UNCHANGED <<config, has_toc, header_called>>

\* Mutant of Layout: the render state is cleared once the page is built.
LayoutThatResets(content) ==
    /\ ret' = PageOf(two_column_layout, content)
    /\ has_toc' = FALSE
    /\ attachments' = <<>>
    /\ ncalls' = ncalls + 1
    /\ op' = Call("layout", content, None, 0)
    /\ UNCHANGED <<config, header_called, image_srcs>>

\* ConfluenceRenderer.layout
Layout(content) ==
    /\ ret' = PageOf(two_column_layout, content)
    /\ ncalls' = ncalls + 1
    /\ op' = Call("layout", content, None, 0)
    /\ UNCHANGED <<config, has_toc, attachments, header_called, image_srcs>>

\* ------------------------------------------------------------------ inputs
Users == {"u1", "u2"}

RECURSIVE SeqsUpTo(_, _)
SeqsUpTo(S, n) ==
    IF n = 0 THEN {<<>>}
    ELSE LET shorter == SeqsUpTo(S, n - 1)
         IN  shorter \cup {Append(q, x) : q \in {r \in shorter : Len(r) = n - 1}, x \in S}

AuthorArgs == {None} \cup {Some(a) : a \in SeqsUpTo(Users, MaxAuthors)}

CustomWarning == <<"Do not edit ", "<", "b", ">", "here", "<", "/", "b", ">", " ", "&", " ", "\"", "now", "\"">>
Warnings == {WarnBool(FALSE), WarnBool(TRUE), WarnStr(<<>>), WarnStr(CustomWarning)}

IntroPath == <<"/", "docs", "/", "posts", "/", "intro.md">>
ArticlePaths == {IntroPath,
                 <<"intro.md">>,
                 <<"/", "intro.md">>,
                 <<"docs", "/", "intro.md">>}

DiagramSrc == <<"img", "/", "diagram.png">>
CdnSrc == <<"https", ":", "/", "/", "cdn.example.com", "/", "a.png">>
ProtocolRelativeSrc == <<"/", "/", "host", "/", "a.png">>

ImageSrcs == {DiagramSrc, CdnSrc, ProtocolRelativeSrc,
              <<>>,
              <<"a.png">>,
              <<".", "/", "a.png">>,
              <<".", ".", "/", "img", "/", ".", ".", "/", "a.png">>,
              <<"/", "img", "/", "a.png">>,
              <<"/", "/", "/", "img", "/", "a.png">>,
              <<"https", ":", "a.png">>,
              <<"https", ":", "/", "/", "/", "a.png">>,
              <<"/", "/", "host">>,
              <<"img", "/", "a.png", "?", "/", "/", "host">>}

Title == <<"Title">>
HeaderTexts == {Title}
Levels == {1, 2}

Codes == {<<>>,
          <<"x">>,
          <<"a", "<", "b", " ", "&", "&", " ", "c", ">", "d">>,
          <<"]">>,
          <<"]", "]">>,
          <<"x", "]", "]", ">", "y">>,
          <<"]", "]", ">">>,
          <<CdataOpen, "x">>}
Langs == {None, Some(<<>>), Some(<<"python">>)}

TitleBody == <<"<h1>", "Title", "</h1>\n", "<p>", "text", "</p>\n">>
Bodies == {<<>>, <<"<p>", "text", "</p>\n">>, TitleBody}

\* ------------------------------------------------------------ specifications
\* Every configuration of one renderer, driven with a few inputs.
Init ==
    \E a \in AuthorArgs, w \in Warnings, toc \in BOOLEAN, two_col \in BOOLEAN :
        Construct(IntroPath, a, w, toc, two_col)

Next ==
    \/ \E text \in HeaderTexts, level \in Levels :
           ncalls < MaxCalls /\ Header(text, level)
    \/ \E code \in {<<"x">>}, lang \in {None} :
           ncalls < MaxCalls /\ BlockCode(code, lang)
    \/ \E src \in {DiagramSrc, CdnSrc} :
           ncalls < MaxCalls /\ Image(src)
    \/ \E content \in Bodies :
           ncalls < MaxCalls /\ Layout(content)

Spec == Init /\ [][Next]_vars

\* The default configuration, driven with every image source and code payload.
InitAssets ==
    \E path \in ArticlePaths :
        Construct(path, Some(<<>>), WarnBool(TRUE), TRUE, FALSE)

NextAssets ==
    \/ \E text \in HeaderTexts :
           ncalls < MaxAssetCalls /\ Header(text, 1)
    \/ \E code \in Codes, lang \in Langs :
           ncalls < MaxAssetCalls /\ BlockCode(code, lang)
    \/ \E src \in ImageSrcs :
           ncalls < MaxAssetCalls /\ Image(src)
    \/ ncalls < MaxAssetCalls /\ Layout(TitleBody)

SpecAssets == InitAssets /\ [][NextAssets]_vars

\* ------------------------------------------------- reading a page or fragment
\* The definitions below belong to the properties, not to the renderer: they
\* read a returned string the way its consumer would.

RECURSIVE FindSeq(_, _, _)
\* str.find(pat, start) for a token sequence pat, 1-based; 0 when absent.
FindSeq(s, pat, start) ==
    IF start + Len(pat) - 1 > Len(s) THEN 0
    ELSE IF StartsWithAt(s, pat, start) THEN start
    ELSE FindSeq(s, pat, start + 1)

RECURSIVE CountFrom(_, _, _)
\* str.count(pat): the non-overlapping occurrences of pat from position i on.
CountFrom(s, pat, i) ==
    LET j == FindSeq(s, pat, i)
    IN  IF j = 0 THEN 0 ELSE 1 + CountFrom(s, pat, j + Len(pat))

Count(s, pat) == CountFrom(s, pat, 1)

Contains(s, pat) == FindSeq(s, pat, 1) > 0

RECURSIVE KeysAfter(_, _)
\* The tokens that directly follow each occurrence of marker, in order.
KeysAfter(s, marker) ==
    LET i == Find(s, marker, 1)
    IN  IF i = 0 \/ i = Len(s) THEN <<>>
        ELSE <<s[i + 1]>> \o KeysAfter(SubSeq(s, i + 1, Len(s)), marker)

\* The text between the first token `open` and the next token `close`.
Between(s, open, close) ==
    LET i == Find(s, open, 1)
        j == Find(s, close, i + 1)
    IN  SubSeq(s, i + 1, j - 1)

\* The literal text of the first CDATA section: from after "<![CDATA[" up to
\* the first "]]>" that follows.
CdataPayload(s) ==
    LET i == Find(s, CdataOpen, 1)
        j == FindSeq(s, CdataClose, i + 1)
    IN  SubSeq(s, i + 1, j - 1)

\* RFC 3986: src has an authority when, after an optional "scheme:", it goes on
\* with "//" and at least one character that is not "/", "?" or "#".
HasAuthority(src) ==
    \E k \in 0..Len(src) :
        /\ \/ k = 0
           \/ /\ k >= 2
              /\ src[k] = ":"
              /\ src[1] \in Names
              /\ \A i \in 1..(k - 1) : src[i] \in Names \cup {"."}
        /\ Len(src) >= k + 3
        /\ src[k + 1] = "/"
        /\ src[k + 2] = "/"
        /\ src[k + 3] \notin {"/", "?", "#"}

\* The path a local src resolves to: src joined onto the article's directory,
\* normalised.
Resolved(src) == Normpath(PathJoin(Dirname(absolute_path), src))

RECURSIVE LocalPaths(_)
\* The resolved paths of the local sources among srcs, in order.
LocalPaths(srcs) ==
    IF srcs = <<>> THEN <<>>
    ELSE (IF HasAuthority(Head(srcs)) THEN <<>> ELSE <<Resolved(Head(srcs))>>)
             \o LocalPaths(Tail(srcs))

IsPrefix(a, b) == Len(a) <= Len(b) /\ SubSeq(b, 1, Len(a)) = a

NoAuthors == authors_arg.isNone \/ authors_arg.s = <<>>

\* ------------------------------------------------------------------- claims

\* C1: on a renderer whose header() was never called, the page layout()
\* returns holds no table-of-contents fragment (neither its heading nor its
\* toc macro), whatever render_toc, two_column_layout, authors and warning are.
C1_NoTocWithoutHeading ==
    (op.name = "layout" /\ ~header_called) =>
        /\ ~Contains(ret, <<TocHeading>>)
        /\ ~Contains(ret, <<TocMacroOpen>>)
        /\ Count(ret, TocFragment) = 0

C1_Witness ==
    /\ op.name = "layout"
    /\ ~header_called
    /\ render_toc
    /\ two_column_layout
    /\ authors # <<>>
    /\ Truthy(warning)

\* C2: once header() has been called and render_toc is true, the page holds
\* exactly one table-of-contents fragment, in either column mode, and the
\* fragment's macro carries the exclude parameter ^(Authors|Table of Contents)$.
C2_ExactlyOneToc ==
    (op.name = "layout" /\ header_called /\ render_toc) =>
        /\ Count(ret, TocFragment) = 1
        /\ Count(ret, <<TocHeading>>) = 1
        /\ Count(ret, <<TocMacroOpen>>) = 1
        /\ KeysAfter(ret, TocMacroOpen) = <<TocExclude>>

C2_Witness ==
    /\ op.name = "layout"
    /\ header_called
    /\ render_toc
    /\ two_column_layout
    /\ op.arg = TitleBody

\* C3: with two_column_layout true, no table of contents (no heading seen or
\* render_toc false) and no authors, layout(content) returns what the same
\* renderer with two_column_layout false returns: warning + content, with no
\* layout section around it.
C3_TwoColumnFallback ==
    (op.name = "layout" /\ two_column_layout
        /\ (~header_called \/ ~render_toc) /\ NoAuthors) =>
        /\ ret = PageOf(FALSE, op.arg)
        /\ ret = render_warning(warning) \o op.arg
        /\ ~Contains(ret, <<TwoOpen>>)
        /\ ~Contains(ret, <<PageOpen>>)

C3_Witness ==
    /\ op.name = "layout"
    /\ two_column_layout
    /\ header_called
    /\ ~render_toc
    /\ NoAuthors
    /\ Truthy(warning)
    /\ op.arg = TitleBody

\* C4: with two_column_layout true and a table of contents or authors, the page
\* is one two_left_sidebar section whose first cell is the table of contents
\* followed by the authors and whose second cell is the body; a warning sits in
\* its own fixed-width section before it and in neither cell; and no page has a
\* two-column section with an empty sidebar.
C4_TwoColumnStructure ==
    /\ (op.name = "layout" /\ two_column_layout
           /\ ((header_called /\ render_toc) \/ ~NoAuthors)) =>
        LET i == Find(ret, TwoOpen, 1)
            m == Find(ret, TwoMid, 1)
            n == Len(ret)
            sidebar == SubSeq(ret, i + 1, m - 1)
            main == SubSeq(ret, m + 1, n - 2)
            above == SubSeq(ret, 1, i - 1)
            banner == render_warning(warning)
        IN  /\ i > 0 /\ m > i
            /\ Count(ret, <<TwoOpen>>) = 1
            /\ sidebar = Toc(header_called, render_toc) \o render_authors(authors)
            /\ main = op.arg
            /\ ret[n - 1] = TwoClose /\ ret[n] = PageClose
            /\ above = IF Truthy(warning)
                       THEN <<PageOpen, FullOpen>> \o banner \o <<FullClose>>
                       ELSE <<PageOpen>>
            /\ ~Contains(sidebar, <<WarningOpen>>)
            /\ ~Contains(main, <<WarningOpen>>)
    /\ (op.name = "layout" /\ Contains(ret, <<TwoOpen>>)) =>
        Between(ret, TwoOpen, TwoMid) # <<>>

C4_Witness ==
    /\ op.name = "layout"
    /\ two_column_layout
    /\ header_called
    /\ render_toc
    /\ Len(authors) = 2
    /\ warning = WarnStr(CustomWarning)
    /\ op.arg = TitleBody

\* C5: with two_column_layout false, or with neither table of contents nor
\* authors, layout(content) returns warning + table of contents + authors +
\* content in that order; with authors u1, u2, the default warning, render_toc
\* and a heading seen, that is the default notice, the toc macro, the author
\* block of u1 then u2, and the body.
C5_SingleColumnOrder ==
    /\ (op.name = "layout"
           /\ (~two_column_layout
                  \/ ((~header_called \/ ~render_toc) /\ NoAuthors))) =>
        ret = render_warning(warning) \o Toc(header_called, render_toc)
                  \o render_authors(authors) \o op.arg
    /\ (op.name = "layout" /\ ~two_column_layout /\ header_called /\ render_toc
           /\ warning = WarnBool(TRUE) /\ authors_arg = Some(<<"u1", "u2">>)
           /\ op.arg = TitleBody) =>
        ret = <<WarningOpen,
                "This page is automatically generated and can be overwritten. Please don",
                "&#x27;", "t modify it here.", WarningClose,
                TocHeading, TocMacroOpen, TocExclude, TocMacroClose,
                AuthorsOpen,
                AuthorPicture, "u1", AuthorLink, "u1", AuthorEnd,
                LineBreak,
                AuthorPicture, "u2", AuthorLink, "u2", AuthorEnd,
                AuthorsClose,
                "<h1>", "Title", "</h1>\n", "<p>", "text", "</p>\n">>

C5_Witness ==
    /\ op.name = "layout"
    /\ ~two_column_layout
    /\ header_called
    /\ render_toc
    /\ warning = WarnBool(TRUE)
    /\ authors_arg = Some(<<"u1", "u2">>)
    /\ op.arg = TitleBody

\* C6: an image() call whose src has no network authority appends exactly one
\* entry to attachments, the normalised path of src joined onto the article's
\* directory, and returns an ri:attachment reference to the base name of that
\* path, which has no directory part; img/diagram.png in /docs/posts/intro.md
\* gives /docs/posts/img/diagram.png and diagram.png.  The same src appends
\* again.
C6_LocalImage ==
    [][(op'.name = "image" /\ ~HasAuthority(op'.arg)) =>
        LET src == op'.arg
            path == Normpath(PathJoin(Dirname(absolute_path), src))
            filename == Between(ret', AttachmentOpen, TagClose)
        IN  /\ attachments' = Append(attachments, path)
            /\ ret' = <<ImageOpen, AttachmentOpen>> \o filename
                          \o <<TagClose, ImageClose>>
            /\ Find(filename, "/", 1) = 0
            /\ EndsWith(path, filename)
            /\ (Len(path) > Len(filename) => path[Len(path) - Len(filename)] = "/")
            /\ (absolute_path = IntroPath /\ src = DiagramSrc) =>
                /\ path = <<"/", "docs", "/", "posts", "/", "img", "/", "diagram.png">>
                /\ filename = <<"diagram.png">>
      ]_vars

C6_Witness ==
    /\ op.name = "image"
    /\ absolute_path = IntroPath
    /\ image_srcs = <<DiagramSrc, DiagramSrc>>
    /\ Len(attachments) = 2
    /\ attachments[1] = attachments[2]

C8_CodeRoundTrip ==
    (op.name = "block_code") =>
        /\ CdataPayload(ret) = op.arg
        /\ Between(ret, CodeOpen, CodeMid) = (IF op.lang.isNone THEN <<>> ELSE op.lang.s)

\* C9: for a non-empty authors list the page holds one Authors heading and one
\* profile reference (picture macro and user link) per identifier, in the given
\* order, joined by line breaks; for an empty or None authors list it holds no
\* author block.
C9_AuthorBlock ==
    (op.name = "layout") =>
        IF NoAuthors
        THEN /\ authors = <<>>
             /\ render_authors(authors) = <<>>
             /\ Count(ret, <<AuthorsOpen>>) = 0
             /\ Count(ret, <<AuthorPicture>>) = 0
             /\ Count(ret, <<AuthorLink>>) = 0
        ELSE LET given == authors_arg.s
                 block == render_authors(authors)
             IN  /\ Count(ret, block) = 1
                 /\ Count(ret, <<AuthorsOpen>>) = 1
                 /\ Head(block) = AuthorsOpen
                 /\ block[Len(block)] = AuthorsClose
                 /\ KeysAfter(ret, AuthorsOpen) = <<AuthorPicture>>
                 /\ KeysAfter(ret, AuthorPicture) = given
                 /\ KeysAfter(ret, AuthorLink) = given
                 /\ KeysAfter(ret, LineBreak) = [i \in 1..(Len(given) - 1) |-> AuthorPicture]
                 /\ Count(ret, <<AuthorEnd>>) = Len(given)
                 /\ Len(block) = 6 * Len(given) + 1

C9_Witness ==
    /\ op.name = "layout"
    /\ authors_arg = Some(<<"u2", "u1">>)
    /\ two_column_layout

\* C10: in every state has_toc is true exactly when header() has been called
\* and attachments is the list of resolved paths of the image() calls with a
\* local src, in call order; block_code and layout change neither, has_toc is
\* never reset and no attachment is ever removed.
C10_RenderState ==
    /\ [](/\ has_toc = header_called
          /\ attachments = LocalPaths(image_srcs))
    /\ [][/\ (op'.name \in {"block_code", "layout"}) =>
                 (has_toc' = has_toc /\ attachments' = attachments)
          /\ has_toc => has_toc'
          /\ IsPrefix(attachments, attachments')
         ]_vars

C10_Witness ==
    /\ op.name = "layout"
    /\ has_toc
    /\ image_srcs = <<CdnSrc, DiagramSrc>>
    /\ Len(attachments) = 1

====
